---- MODULE Spec2Model ----
(***************************************************************************)
(* State-machine model of ACRemoteControl (ac_rest_remote_control/         *)
(* climate.py): the thermostat entity that turns setpoint / mode / preset  *)
(* changes and keep-alive ticks into REST commands for an AC controller.   *)
(*                                                                         *)
(* Every coroutine of the entity is a task.  A task runs atomically from   *)
(* one suspension point to the next, as on an asyncio event loop: the only *)
(* suspension points of the entity are waiting for _temp_lock and waiting  *)
(* for the executor job that posts the command.                            *)
(***************************************************************************)
EXTENDS Integers, Sequences, FiniteSets, TLC

(***************************************************************************)
(* Bounds of the model.                                                    *)
(***************************************************************************)
NumTasks == 2      \* coroutines of the entity that can be suspended at once
MinCycle == 1      \* the configured min_cycle_duration, when one is configured

(***************************************************************************)
(* Values.                                                                 *)
(***************************************************************************)
None == -1                     \* Python's None where a temperature is expected
NoMode == "None"               \* Python's None where an HVACMode is expected
DEFAULT_TARGET_TEMPERATURE == 24
PRESET_NONE == "none"

HVACModes == {"heat", "cool", "off"}
\* what a caller may pass to async_set_hvac_mode: "auto" is an HVACMode the
\* entity does not handle
ModeArgs == HVACModes \cup {"auto"}
\* what a caller may pass to async_set_temperature (None: no ATTR_TEMPERATURE)
TempArgs == {None, 22}
\* the configurations of presets: none, or two of the CONF_PRESETS names
NoPresets == [p \in {} |-> None]
TwoPresets == [p \in {"away", "eco"} |-> IF p = "away" THEN 16 ELSE 22]
\* what a caller may pass to async_set_preset_mode
PresetArgs == {PRESET_NONE, "away", "eco", "bogus"}

VARIABLES
    \* configuration, fixed by __init__
    min_cycle_duration,        \* 0: not configured (None and timedelta(0) are both falsy)
    keep_alive,                \* whether a keep-alive interval is configured
    presets,                   \* preset name -> temperature
    \* the entity's fields
    hvac_mode,                 \* _hvac_mode
    target_temp,               \* _target_temp
    saved_target_temp,         \* _saved_target_temp
    preset_mode,               \* _attr_preset_mode
    active,                    \* _active
    is_last_send_succeed,      \* _is_last_send_succeed
    last_state,                \* _last_state: <<>> is None, <<temperature, mode>> an ACState
    since_last_action,         \* datetime.now() - _last_control_action_time
    \* asyncio.Lock _temp_lock
    locked,
    waiters,                   \* the coroutines waiting for it, first come first
    \* the environment
    added,                     \* async_added_to_hass has completed
    inside,                    \* the coroutines suspended inside "async with
                               \* self._temp_lock", at the await of line 475
    last_response,             \* how the most recent POST ended: "none", "ok", "fail"
    \* what the step just taken did, for whoever watches the entity
    obs

config == <<min_cycle_duration, keep_alive, presets>>
fields == <<hvac_mode, target_temp, saved_target_temp, preset_mode>>
sent   == <<is_last_send_succeed, last_state, since_last_action, last_response>>
vars == <<config, fields, active, sent, locked, waiters, added, inside, obs>>

(***************************************************************************)
(* ACState (dataclass): equality is equality of (temperature, mode).       *)
(***************************************************************************)
ACState(temperature, mode) == <<temperature, mode>>

\* What a step did:
\*   op       the call the step belongs to
\*   arg      the argument of the call, in the step that starts the call
\*            (a name, or a temperature written out)
\*   ret      how the call ended in this step: "ok" returned, "error_logged"
\*            returned after _LOGGER.error, "ValueError" / "AttributeError"
\*            / "KeyError" raised, "pending" not ended yet, "none" no call
\*   notified the call reached its async_write_ha_state
\*   verdict  what a run of _async_control_heating in this step came to
\*            ("none": the step ran none; "done": the step is the end of a
\*            run that had sent)
\*   elapsed  now - _last_control_action_time when the run read the clock
\*   differs  the desired state differed from _last_state when the run began
NoArg == "-"
NoObs == [op |-> "none", arg |-> NoArg, ret |-> "none", notified |-> FALSE,
          verdict |-> "none", elapsed |-> 0, differs |-> FALSE]

\* preset_modes: [PRESET_NONE, *presets.keys()]
preset_modes == {PRESET_NONE} \cup DOMAIN presets

\* next(iter(presets.values()), None): CONF_PRESETS lists "away" first
FirstPresetValue == IF "away" \in DOMAIN presets THEN presets["away"] ELSE None

\* a saved temperature without the fallback to the first preset
InitSavedNoFallback(t) == t

\* target_temp or next(iter(presets.values()), None)
InitSavedTargetTemp(t) == IF t # None /\ t # 0 THEN t ELSE FirstPresetValue

(***************************************************************************)
(* __init__                                                                *)
(***************************************************************************)
Init ==
    /\ min_cycle_duration \in {0, MinCycle}
    /\ keep_alive \in BOOLEAN
    /\ presets \in {NoPresets, TwoPresets}
    /\ hvac_mode \in {NoMode, "heat"}
    /\ target_temp \in {None, 22}
    /\ saved_target_temp = InitSavedTargetTemp(target_temp)
    /\ preset_mode = PRESET_NONE
    /\ active = FALSE
    /\ is_last_send_succeed = FALSE
    /\ last_state = <<>>
    /\ since_last_action = 0
    /\ locked = FALSE
    /\ waiters = <<>>
    /\ added = FALSE
    /\ inside = <<>>
    /\ last_response = "none"
    /\ obs = NoObs

(***************************************************************************)
(* async_added_to_hass: the restore of the last state.  The keep-alive     *)
(* timer it registers first fires one interval later, and the entity takes *)
(* calls once it is added: the model lets ticks and calls start after it.  *)
(***************************************************************************)
\* The state restored is one this entity wrote in an earlier run: its state is
\* its hvac_mode, its attributes the target temperature and the preset.
NoOldState == [present |-> FALSE, temperature |-> None,
               preset_mode |-> PRESET_NONE, state |-> "off"]
OldStates == {NoOldState} \cup
             [present : {TRUE}, temperature : {None, 16},
              preset_mode : {PRESET_NONE, "eco"}, state : {"off", "cool"}]

\* lines 279-306: the target temperature after the restore
RestoredTargetTemp(old) ==
    IF target_temp # None THEN target_temp
    ELSE IF old.present /\ old.temperature # None THEN old.temperature
    ELSE DEFAULT_TARGET_TEMPERATURE

\* lines 292-296
RestoredPresetMode(old) ==
    IF old.present /\ old.preset_mode \in preset_modes
    THEN old.preset_mode ELSE preset_mode

\* a restore without the default of lines 308-309
RestoredHvacModeNoDefault(old) ==
    IF hvac_mode # NoMode THEN hvac_mode
    ELSE IF old.present THEN old.state
    ELSE NoMode

\* lines 297-298 and 307-309
RestoredHvacMode(old) ==
    IF hvac_mode # NoMode THEN hvac_mode
    ELSE IF old.present THEN old.state
    ELSE "off"

\* an ACState() of defaults for the first _last_state
FirstLastStateEmpty(tt, hm) == ACState(None, NoMode)

\* line 311: the first _last_state is the state the startup ends in
FirstLastState(tt, hm) == ACState(tt, hm)

async_added_to_hass(old) ==
    /\ ~added
    /\ added' = TRUE
    /\ target_temp' = RestoredTargetTemp(old)
    /\ preset_mode' = RestoredPresetMode(old)
    /\ hvac_mode' = RestoredHvacMode(old)
    /\ last_state' = FirstLastState(target_temp', hvac_mode')
    /\ obs' = NoObs
    /\ UNCHANGED <<config, saved_target_temp, active, is_last_send_succeed,
                   since_last_action, last_response, locked, waiters,
                   inside>>

(***************************************************************************)
(* The derived properties.                                                 *)
(***************************************************************************)
\* _is_device_active: no feedback from the air conditioner, always active
IsDeviceActive == TRUE

hvac_action ==
    IF ~is_last_send_succeed THEN "idle"
    ELSE IF hvac_mode = "heat" THEN "heating"
    ELSE IF hvac_mode = "cool" THEN "cooling"
    ELSE "off"

(***************************************************************************)
(* _async_control_heating and _async_control_heating_command_sender.       *)
(***************************************************************************)
\* a lock that never makes a caller wait
LockFreeAlways == TRUE

\* asyncio.Lock.acquire takes the lock at once when it is free and nobody waits
LockFree == ~locked /\ waiters = <<>>

\* a comparison that lets a command through exactly min_cycle_duration after
\* the last one
LongEnoughOrEqual == since_last_action >= min_cycle_duration

\* line 435
LongEnough == since_last_action > min_cycle_duration

\* the gate closed for the calls that do not force, as "if not force and time
\* is None" would close it
GatedUnlessForced(force, time) ==
    ~force /\ ~time /\ min_cycle_duration # 0 /\ IsDeviceActive /\ ~LongEnough

\* the gate closed for the keep-alive ticks too
GatedWithTime(force, time) ==
    (force \/ time) /\ min_cycle_duration # 0 /\ IsDeviceActive /\ ~LongEnough

\* lines 433-437: the evaluation returns without looking at the state
Gated(force, time) ==
    force /\ ~time /\ min_cycle_duration # 0 /\ IsDeviceActive /\ ~LongEnough

\* a sender that does not compare
StateChangedAlways(cur) == TRUE

\* a sender that compares the modes only
StateChangedModeOnly(cur) == last_state = <<>> \/ last_state[2] # cur[2]

\* a sender that sends again what it failed to send
StateChangedOrFailed(cur) == last_state # cur \/ ~is_last_send_succeed

\* line 464: dataclass inequality of _last_state and cur_state
StateChanged(cur) == last_state # cur

\* a payload that toggles the power on every change of mode
PayloadToggleOnModeChange(prev, cur, hm, tt) ==
    [power_toggle |-> prev[2] # cur[2],
     power |-> hm # "off",
     mode |-> IF hm = "cool" THEN "COOL_MODE" ELSE "HEAT_MODE",
     fan |-> "FAN_AUTO",
     temperature |-> tt]

\* lines 466-474; prev and cur are ACStates, hm and tt the entity's fields
Payload(prev, cur, hm, tt) ==
    [power_toggle |-> \/ (prev[2] = "off" /\ cur[2] # "off")
                      \/ (prev[2] # "off" /\ cur[2] = "off"),
     power |-> hm # "off",
     mode |-> IF hm = "cool" THEN "COOL_MODE" ELSE "HEAT_MODE",
     fan |-> "FAN_AUTO",
     temperature |-> tt]

\* what one run of _async_control_heating does, the fields being tt and hm:
\*   "inactive" line 427, "gated" line 437, "equal" line 464 is false,
\*   "error" line 466 reads .mode of None, "sent" line 475 is reached
Verdict(tt, hm, force, time) ==
    IF ~(active \/ tt # None) THEN "inactive"
    ELSE IF Gated(force, time) THEN "gated"
    ELSE IF ~IsDeviceActive THEN "inactive"
    ELSE IF ~StateChanged(ACState(tt, hm)) THEN "equal"
    ELSE IF last_state = <<>> THEN "error"
    ELSE "sent"

\* the arguments _async_control_heating gets from each caller: force=True
\* from async_set_hvac_mode and async_set_temperature (lines 356-376),
\* force=False from async_set_preset_mode (lines 493, 499), and the time of
\* the tick from the keep-alive timer (line 260)
Force(op) == op \in {"async_set_hvac_mode", "async_set_temperature"}
Time(op) == op = "keep_alive"

\* a call that ends, or queues up, before it reaches the body of
\* _async_control_heating
Returned(op, arg, ret) ==
    [NoObs EXCEPT !.op = op, !.arg = arg, !.ret = ret]

\* async_write_ha_state follows the await in every setter; the keep-alive
\* callback is _async_control_heating itself and writes nothing
Notifies(op) == op # "keep_alive"

\* The body of "async with self._temp_lock" for a call op, entered with the
\* lock taken, up to its end or to the await of the executor job.  tt and hm
\* are the fields as the body reads them, w the waiters left.
ControlHeating(op, arg, tt, hm, w) ==
    LET cur == ACState(tt, hm)
        v == Verdict(tt, hm, Force(op), Time(op))
    IN  /\ active' = (active \/ tt # None)
        /\ waiters' = w
        /\ IF v = "sent"
           THEN /\ locked' = TRUE
                /\ inside' = Append(inside,
                       [op |-> op, cur |-> cur,
                        payload |-> Payload(last_state, cur, hm, tt)])
           ELSE /\ locked' = FALSE
                /\ UNCHANGED inside
        /\ obs' = [op |-> op,
                   arg |-> arg,
                   ret |-> IF v = "sent" THEN "pending"
                           ELSE IF v = "error" THEN "AttributeError" ELSE "ok",
                   notified |-> v \notin {"sent", "error"} /\ Notifies(op),
                   verdict |-> v,
                   elapsed |-> since_last_action,
                   differs |-> last_state # cur]
        /\ UNCHANGED <<config, sent, added>>

\* "await self._async_control_heating(...)" of a call that has just written the
\* fields: the body at once when the lock is free, else the call queues up
AwaitControlHeating(op, arg, tt, hm) ==
    IF LockFree
    THEN ControlHeating(op, arg, tt, hm, waiters)
    ELSE /\ waiters' = Append(waiters, op)
         /\ obs' = Returned(op, arg, "pending")
         /\ UNCHANGED <<config, sent, added, active, locked, inside>>

\* a released lock wakes its first waiter, which then runs the body
LockAcquired ==
    /\ ~locked
    /\ waiters # <<>>
    /\ ControlHeating(Head(waiters), NoArg, target_temp, hvac_mode, Tail(waiters))
    /\ UNCHANGED fields

\* a sender that does not record a failure
SendSucceededAlways(ok) == TRUE

\* lines 456 and 459: what _send_rest_command leaves in _is_last_send_succeed
SendSucceeded(ok) == ok

\* s without its i-th element
Without(s, i) == SubSeq(s, 1, i - 1) \o SubSeq(s, i + 1, Len(s))

\* a sender that records the state only when the POST succeeded
RecordedStateOnSuccess(i, ok) == IF ok THEN inside[i].cur ELSE last_state

\* a sender that reads the fields again after the await
RecordedStateFromFields(i, ok) == ACState(target_temp, hvac_mode)

\* line 476: _last_state becomes cur_state, the local the coroutine built at
\* line 463, whatever the POST came to
RecordedState(i, ok) == inside[i].cur

\* a sender whose failed POST raises into the coroutine: lines 476-477 are
\* skipped, the lock is left, and the caller gets the exception
SendDoneRaising(i, ok) ==
    /\ is_last_send_succeed' = (ok \/ is_last_send_succeed)
    /\ last_response' = IF ok THEN "ok" ELSE "fail"
    /\ last_state' = IF ok THEN inside[i].cur ELSE last_state
    /\ since_last_action' = IF ok THEN 0 ELSE since_last_action
    /\ locked' = FALSE
    /\ inside' = Without(inside, i)
    /\ obs' = [NoObs EXCEPT !.op = inside[i].op,
                            !.ret = IF ok THEN "ok" ELSE "RequestException",
                            !.verdict = "done",
                            !.notified = ok /\ Notifies(inside[i].op)]
    /\ UNCHANGED <<config, fields, active, waiters, added>>

\* the executor job of the i-th coroutine inside ends (the POST answered 2xx,
\* or failed), and the sender goes on to lines 476-477 and leaves the lock
SendDone(i, ok) ==
    /\ is_last_send_succeed' = SendSucceeded(ok)
    /\ last_response' = IF ok THEN "ok" ELSE "fail"
    /\ last_state' = RecordedState(i, ok)
    /\ since_last_action' = 0
    /\ locked' = FALSE
    /\ inside' = Without(inside, i)
    /\ obs' = [NoObs EXCEPT !.op = inside[i].op, !.ret = "ok",
                            !.verdict = "done",
                            !.notified = Notifies(inside[i].op)]
    /\ UNCHANGED <<config, fields, active, waiters, added>>

(***************************************************************************)
(* The calls of the entity.                                                *)
(***************************************************************************)
Starts ==
    /\ added
    /\ Len(inside) + Len(waiters) < NumTasks

\* a setter that takes every mode
ModeHandledAlways(m) == TRUE

\* lines 354-362: the modes async_set_hvac_mode handles
ModeHandled(m) == m \in {"heat", "cool", "off"}

async_set_hvac_mode(m) ==
    /\ Starts
    /\ IF ModeHandled(m)
       THEN /\ hvac_mode' = m
            /\ UNCHANGED <<target_temp, saved_target_temp, preset_mode>>
            /\ AwaitControlHeating("async_set_hvac_mode", m, target_temp, m)
       ELSE \* lines 366-367
            /\ obs' = Returned("async_set_hvac_mode", m, "error_logged")
            /\ UNCHANGED <<config, fields, active, sent, locked, waiters,
                           added, inside>>

async_set_temperature(temperature) ==
    /\ Starts
    /\ IF temperature = None
       THEN \* lines 373-374
            /\ obs' = Returned("async_set_temperature", ToString(temperature), "ok")
            /\ UNCHANGED <<config, fields, active, sent, locked, waiters,
                           added, inside>>
       ELSE /\ target_temp' = temperature
            /\ UNCHANGED <<hvac_mode, saved_target_temp, preset_mode>>
            /\ AwaitControlHeating("async_set_temperature", ToString(temperature),
                                   temperature, hvac_mode)

\* a setter that does not check the name
PresetSupportedAlways(p) == TRUE

\* line 482
PresetSupported(p) == p \in preset_modes

\* a setter that does not look at the preset that is on
SamePresetNever(p) == FALSE

\* line 487
SamePreset(p) == p = preset_mode

\* the target temperature saved on every change of preset
SavedOnPresetAlways == target_temp

\* lines 495-496: what _saved_target_temp holds once a named preset is set
SavedOnPreset == IF preset_mode = PRESET_NONE THEN target_temp ELSE saved_target_temp

\* line 492: the target temperature on the way back to PRESET_NONE
RestoredOnNone == saved_target_temp

async_set_preset_mode(p) ==
    /\ Starts
    /\ IF ~PresetSupported(p)
       THEN \* lines 483-486
            /\ obs' = Returned("async_set_preset_mode", p, "ValueError")
            /\ UNCHANGED <<config, fields, active, sent, locked, waiters,
                           added, inside>>
       ELSE IF SamePreset(p)
       THEN \* lines 487-489
            /\ obs' = Returned("async_set_preset_mode", p, "ok")
            /\ UNCHANGED <<config, fields, active, sent, locked, waiters,
                           added, inside>>
       ELSE IF p = PRESET_NONE
       THEN /\ preset_mode' = PRESET_NONE
            /\ target_temp' = RestoredOnNone
            /\ UNCHANGED <<hvac_mode, saved_target_temp>>
            /\ AwaitControlHeating("async_set_preset_mode", p, target_temp', hvac_mode)
       ELSE IF p \in DOMAIN presets
       THEN /\ saved_target_temp' = SavedOnPreset
            /\ preset_mode' = p
            /\ target_temp' = presets[p]
            /\ UNCHANGED hvac_mode
            /\ AwaitControlHeating("async_set_preset_mode", p, target_temp', hvac_mode)
       ELSE \* line 498 raises KeyError, after lines 495-497
            /\ saved_target_temp' = SavedOnPreset
            /\ preset_mode' = p
            /\ obs' = Returned("async_set_preset_mode", p, "KeyError")
            /\ UNCHANGED <<config, hvac_mode, target_temp, active, sent, locked,
                           waiters, added, inside>>

\* lines 257-262: the keep-alive timer calls _async_control_heating(now)
keep_alive_tick ==
    /\ Starts
    /\ keep_alive
    /\ UNCHANGED fields
    /\ AwaitControlHeating("keep_alive", NoArg, target_temp, hvac_mode)

\* Time passes.  The entity reads the clock only to compare the time since
\* _last_control_action_time with min_cycle_duration (line 435), so the clock
\* is kept as that difference, and a difference beyond min_cycle_duration is
\* not counted further.
AdvanceTime ==
    /\ since_last_action <= min_cycle_duration
    /\ since_last_action' = since_last_action + 1
    /\ obs' = NoObs
    /\ UNCHANGED <<config, fields, active, is_last_send_succeed, last_state,
                   last_response, locked, waiters, added, inside>>

Startup == \E old \in OldStates : async_added_to_hass(old)
SetHvacMode == \E m \in ModeArgs : async_set_hvac_mode(m)
SetTemperature == \E v \in TempArgs : async_set_temperature(v)
SetPresetMode == \E p \in PresetArgs : async_set_preset_mode(p)
KeepAlive == keep_alive_tick
Resume == LockAcquired
SendOk == \E i \in 1..Len(inside) : SendDone(i, TRUE)
SendFail == \E i \in 1..Len(inside) : SendDone(i, FALSE)

Next ==
    \/ Startup
    \/ SetHvacMode
    \/ SetTemperature
    \/ SetPresetMode
    \/ KeepAlive
    \/ Resume
    \/ SendOk
    \/ SendFail
    \/ AdvanceTime

Spec == Init /\ [][Next]_vars

\* The scheduling the entity runs under: the keep-alive timer keeps firing
\* (async_track_time_interval), the event loop resumes the first waiter of a
\* free lock, and the executor job ends (requests.post has timeout=3).
Fairness ==
    /\ WF_vars(KeepAlive)
    /\ WF_vars(Resume)
    /\ WF_vars(SendOk \/ SendFail)

FairSpec == Init /\ [][Next]_vars /\ Fairness

(***************************************************************************)
(* The claims.                                                             *)
(***************************************************************************)
\* the step just taken ran the body of _async_control_heating
Evaluated == obs.verdict \notin {"none", "done"}

\* the ways a call ends with an exception
Raises == {"ValueError", "KeyError", "AttributeError"}

\* what a rejected call must leave alone
Untouched == UNCHANGED <<fields, sent, active, locked, waiters, inside>>

\* a run sends only a state that differs from LastSentState
EqualNeverSends ==
    /\ obs.verdict = "sent" => obs.differs
    /\ \A i \in 1..Len(inside) : inside[i].cur # last_state

\* the end of a send records the state the send carried
SentStateRecorded ==
    Len(inside') < Len(inside) =>
        \E i \in 1..Len(inside) : /\ inside' = Without(inside, i)
                                   /\ last_state' = inside[i].cur

\* C1: an evaluation that finds the desired state (target_temperature,
\* hvac_mode) equal to LastSentState as a whole record makes no network call:
\* every run that sends, and every command in flight, carries a state that
\* differs from LastSentState; and the end of a send records the state it
\* carried, so that a second evaluation with no change in between sends nothing.
C1_Idempotent == []EqualNeverSends /\ [][SentStateRecorded]_vars

\* a keep-alive tick, after a send, finds equal states and sends nothing
C1_Witness ==
    obs.op = "keep_alive" /\ obs.verdict = "equal" /\ last_response # "none"

C3_ForcedIgnoresMinCycle ==
    (Evaluated /\ obs.op = "async_set_hvac_mode" /\ obs.differs)
    => obs.verdict = "sent"

\* C4: the payload of every dispatched command: power_toggle iff exactly one
\* of the previous LastSentState.mode and the current mode is OFF, power iff
\* the current mode is not OFF, mode COOL_MODE iff the current mode is COOL and
\* HEAT_MODE otherwise.
C4_Payload ==
    \A i \in 1..Len(inside) :
        LET prev == last_state[2]
            cur == inside[i].cur[2]
            p == inside[i].payload
        IN  /\ p.power_toggle = ((prev = "off") # (cur = "off"))
            /\ p.power = (cur # "off")
            /\ p.mode = IF cur = "cool" THEN "COOL_MODE" ELSE "HEAT_MODE"

\* OFF -> HEAT in flight, with (true, true, HEAT_MODE)
C4_Witness ==
    \E i \in 1..Len(inside) :
        /\ last_state[2] = "off" /\ inside[i].cur[2] = "heat"
        /\ inside[i].payload.power_toggle /\ inside[i].payload.power
        /\ inside[i].payload.mode = "HEAT_MODE"

\* what a step may do to the preset, the target and the saved temperature
PresetRoundTripStep ==
    /\ (added /\ preset_mode = PRESET_NONE /\ preset_mode' # PRESET_NONE)
       => /\ saved_target_temp' = target_temp
          /\ target_temp' = presets[preset_mode']
    /\ (added /\ preset_mode \notin {PRESET_NONE, preset_mode'}
              /\ preset_mode' # PRESET_NONE)
       => /\ saved_target_temp' = saved_target_temp
          /\ target_temp' = presets[preset_mode']
    /\ (added /\ preset_mode # PRESET_NONE /\ preset_mode' = PRESET_NONE)
       => target_temp' = saved_target_temp
    /\ (added /\ saved_target_temp' # saved_target_temp)
       => (preset_mode = PRESET_NONE /\ preset_mode' # PRESET_NONE)

\* C5: leaving "none" for a preset saves the target temperature T and sets the
\* preset's; a switch between named presets keeps the saved value; nothing
\* else writes it; and the return to "none" sets the target to the saved
\* value, which is T.
C5_PresetRoundTrip == [][PresetRoundTripStep]_vars

\* back on "none" with the default temperature, which no preset and no
\* set_temperature of the model gives
C5_Witness ==
    /\ obs.op = "async_set_preset_mode" /\ obs.arg = PRESET_NONE /\ Evaluated
    /\ preset_mode = PRESET_NONE
    /\ target_temp = DEFAULT_TARGET_TEMPERATURE

\* C6: hvac_action is IDLE unless the last POST succeeded, and then HEATING,
\* COOLING or OFF by hvac_mode.
C6_ReportedAction ==
    hvac_action = IF last_response # "ok" THEN "idle"
                  ELSE IF hvac_mode = "heat" THEN "heating"
                  ELSE IF hvac_mode = "cool" THEN "cooling"
                  ELSE "off"

\* a send of mode COOL has just succeeded, and the action reads COOLING
C6_Witness ==
    /\ obs.verdict = "done" /\ last_response = "ok"
    /\ last_state[2] = "cool" /\ hvac_mode = "cool"
    /\ hvac_action = "cooling"

\* C7: async_set_preset_mode with a name that is no configured preset and not
\* "none" raises ValueError and changes nothing: no field, no LastSentState,
\* no evaluation, no command.
C7_InvalidPreset ==
    [][(obs'.op = "async_set_preset_mode" /\ obs'.arg \notin preset_modes \cup {NoArg})
       => /\ obs'.ret = "ValueError"
          /\ obs'.verdict = "none" /\ ~obs'.notified
          /\ Untouched]_vars

\* "bogus" rejected while a preset is on and a command is in flight
C7_Witness ==
    /\ obs.op = "async_set_preset_mode" /\ obs.arg = "bogus"
    /\ obs.ret = "ValueError"
    /\ preset_mode = "eco" /\ inside # <<>>

\* C8 as stated: async_set_hvac_mode with a value outside {HEAT, COOL, OFF}
\* ends with an error raised to the caller, and changes nothing.
C8_Original ==
    [][(obs'.op = "async_set_hvac_mode" /\ obs'.arg \notin HVACModes \cup {NoArg})
       => /\ obs'.ret \in Raises
          /\ Untouched]_vars

\* C8 as amended: async_set_hvac_mode with a value outside {HEAT, COOL, OFF}
\* logs an error and returns to the caller without raising and without
\* notifying; hvac_mode, target temperature, LastSentState and the last action
\* time are unchanged and no command is sent.
C8_InvalidMode ==
    [][(obs'.op = "async_set_hvac_mode" /\ obs'.arg \notin HVACModes \cup {NoArg})
       => /\ obs'.ret = "error_logged"
          /\ obs'.verdict = "none" /\ ~obs'.notified
          /\ Untouched]_vars

\* "auto" logged and dropped while the mode is COOL
C8_Witness ==
    /\ obs.op = "async_set_hvac_mode" /\ obs.arg = "auto"
    /\ obs.ret = "error_logged" /\ hvac_mode = "cool"

\* C9: at most one coroutine is inside the guarded section, so at most one
\* command is in flight, and the lock is held as long as it is.
C9_MutualExclusion ==
    /\ Len(inside) <= 1
    /\ inside # <<>> => locked

\* a command in flight and another trigger waiting for the lock
C9_Witness == Len(inside) = 1 /\ waiters # <<>>

\* C10: a keep-alive tick that runs on an active controller whose desired
\* state differs from LastSentState sends, whatever time has passed since the
\* last action.
C10_TickNotGated ==
    (Evaluated /\ obs.op = "keep_alive" /\ active /\ obs.differs)
    => obs.verdict = "sent"

\* a tick sends less than min_cycle_duration after the last action
C10_Witness ==
    /\ obs.op = "keep_alive" /\ obs.verdict = "sent"
    /\ min_cycle_duration # 0 /\ obs.elapsed < min_cycle_duration

\* C11 as stated: a keep-alive tick that runs after a send attempt that failed
\* dispatches the desired state again.
C11_Original ==
    (Evaluated /\ obs.op = "keep_alive" /\ last_response = "fail")
    => obs.verdict = "sent"

\* C11 as amended: a keep-alive tick dispatches the desired state, with no
\* user action, exactly when it differs from LastSentState; after a send
\* attempt of the desired state, failed or not, the tick finds the states
\* equal and sends nothing.
C11_KeepAlive ==
    (Evaluated /\ obs.op = "keep_alive")
    => /\ obs.verdict = "sent" <=> obs.differs
       /\ ~obs.differs => obs.verdict = "equal"
       /\ (last_response # "none" /\ ACState(target_temp, hvac_mode) = last_state)
          => obs.verdict = "equal"

\* the tick after a failed send of the desired state sends nothing
C11_Witness ==
    /\ obs.op = "keep_alive" /\ obs.verdict = "equal"
    /\ last_response = "fail" /\ ~is_last_send_succeed

\* what a step does to the commands in flight and to the record of the POST
OneRequestStep ==
    /\ (obs'.verdict \notin {"none", "done", "gated", "inactive"} /\ obs'.differs)
       => obs'.verdict = "sent"
    /\ obs'.verdict = "sent"
       => /\ Len(inside') = Len(inside) + 1
          /\ SubSeq(inside', 1, Len(inside)) = inside
          /\ inside'[Len(inside')].cur = ACState(target_temp', hvac_mode')
          /\ obs'.ret = "pending"
          /\ UNCHANGED <<is_last_send_succeed, last_response>>
    /\ obs'.verdict = "done"
       => /\ Len(inside') = Len(inside) - 1
          /\ obs'.ret = "ok"
          /\ is_last_send_succeed' = (last_response' = "ok")
          /\ ~locked'
    /\ obs'.verdict \notin {"sent", "done"}
       => UNCHANGED <<inside, is_last_send_succeed, last_response>>

\* C12: every evaluation that passes the gate and finds the desired state
\* different from LastSentState puts exactly one command in flight; the command
\* ends once, by success or by failure, and is not sent again; a failure
\* is recorded in last_send_succeeded, returns to the caller without an
\* exception, and leaves the lock free for the next trigger.
C12_OneRequest == [][OneRequestStep]_vars

\* a changed desired state is dispatched after a send that failed
C12_Witness ==
    /\ obs.verdict = "sent" /\ last_response = "fail"
    /\ ~is_last_send_succeed /\ Len(inside) = 1

LastSentFrameStep ==
    /\ obs'.verdict = "done"
       => /\ \E i \in 1..Len(inside) : /\ inside' = Without(inside, i)
                                        /\ last_state' = inside[i].cur
          /\ since_last_action' = 0
          /\ last_response' \in {"ok", "fail"}
    /\ (added /\ obs'.verdict # "done")
       => /\ last_state' = last_state
          /\ obs'.op # "none" => since_last_action' = since_last_action
          /\ obs'.op = "none" => since_last_action' = since_last_action + 1

\* C14: LastSentState and the time of the last action are written only at the
\* end of an evaluation that dispatched a send, to the dispatched state and to
\* now, whether the send succeeded or failed; an evaluation that is inactive,
\* gated or finds equal states, and every setter, leave both as they are (the
\* time since the last action then only grows with the clock).
C14_LastSentFrame == [][LastSentFrameStep]_vars

\* a failed send has just recorded the state it carried, at time 0
C14_Witness ==
    /\ obs.verdict = "done" /\ last_response = "fail"
    /\ last_state = ACState(target_temp, hvac_mode) /\ since_last_action = 0
    /\ last_state # ACState(DEFAULT_TARGET_TEMPERATURE, "off")

\* C15: async_set_preset_mode with the preset that is on ("none" included)
\* returns at once: target temperature, saved temperature, preset,
\* LastSentState and the time of the last action are unchanged, no evaluation
\* runs, no command is sent and the state is not written to the observers.
C15_SamePresetNoOp ==
    [][(/\ obs'.op = "async_set_preset_mode"
        /\ obs'.arg # NoArg
        /\ obs'.arg = preset_mode)
       => /\ obs'.ret = "ok"
          /\ obs'.verdict = "none" /\ ~obs'.notified
          /\ Untouched]_vars

\* "eco" set again while "eco" is on and the target differs from LastSentState
C15_Witness ==
    /\ obs.op = "async_set_preset_mode" /\ obs.arg = "eco"
    /\ obs.ret = "ok" /\ obs.verdict = "none"
    /\ preset_mode = "eco" /\ last_state # ACState(target_temp, hvac_mode)

Unsent == added /\ last_state # ACState(target_temp, hvac_mode)

\* the step just taken began a call of a setter
SetterCalled ==
    /\ obs.op \in {"async_set_hvac_mode", "async_set_temperature",
                   "async_set_preset_mode"}
    /\ obs.arg # NoArg

\* nothing of the entity is running or due to run
Quiet == inside = <<>> /\ waiters = <<>>

\* C17: with a keep-alive interval configured and the timer firing, from any
\* state where the desired state differs from LastSentState a send of it is
\* attempted and LastSentState comes to equal it, unless a setter is called
\* before; with no keep-alive, once nothing is running, nothing but a new
\* trigger (a call of a setter) can send it.
C17_Convergence ==
    /\ (keep_alive /\ Unsent) ~> (~Unsent \/ SetterCalled)
    /\ []((~keep_alive /\ Unsent /\ Quiet)
          => ~ENABLED (KeepAlive \/ Resume \/ SendOk \/ SendFail))

\* a tick has sent, less than min_cycle_duration after the last action, a
\* change that the gate had kept back, and the send has ended
C17_Witness ==
    /\ keep_alive /\ min_cycle_duration # 0
    /\ obs.op = "keep_alive" /\ obs.verdict = "done"
    /\ last_state = ACState(target_temp, hvac_mode)
    /\ last_state # ACState(DEFAULT_TARGET_TEMPERATURE, "off")

\* the state a payload carries: its temperature, and the mode its power and
\* mode fields stand for
Carries(payload, state) ==
    /\ payload.temperature = state[1]
    /\ payload.power = (state[2] # "off")
    /\ payload.mode = IF state[2] = "cool" THEN "COOL_MODE" ELSE "HEAT_MODE"

\* the end of a send, whatever the setters wrote while it was in flight
InFlightStep ==
    obs'.verdict = "done"
    => \E i \in 1..Len(inside) :
          /\ inside' = Without(inside, i)
          /\ Carries(inside[i].payload, last_state')
          /\ ACState(target_temp, hvac_mode) # inside[i].cur
             => /\ last_state' # ACState(target_temp', hvac_mode')
                /\ last_state' = inside[i].cur

\* C18: when a setter writes the desired state while a send is in flight, the
\* state recorded as LastSentState at the end of the send is the (temperature,
\* mode) the dispatched payload carries, not the newer values, which therefore
\* still differ from LastSentState for the next evaluation.
C18_InFlight ==
    /\ [](\A i \in 1..Len(inside) : Carries(inside[i].payload, inside[i].cur))
    /\ [][InFlightStep]_vars

\* a send has ended after a setter wrote a new state, and the setter's own
\* evaluation waits for the lock with the difference still there
C18_Witness ==
    /\ obs.verdict = "done" /\ waiters # <<>>
    /\ last_state # ACState(target_temp, hvac_mode)

\* the target temperature is there, and so is all that rests on it
TargetDefined ==
    /\ added => target_temp # None
    /\ Evaluated => (active /\ obs.verdict # "inactive")
    /\ \A i \in 1..Len(inside) : /\ inside[i].payload.temperature # None
                                  /\ inside[i].cur[1] # None

\* C19: once startup has completed the target temperature is never absent,
\* whatever setters, presets (the return to "none" with its saved temperature
\* included) and ticks follow; so the first evaluation makes the controller
\* active, it never becomes inactive again, and every dispatched payload
\* carries a temperature.
C19_TargetDefined == []TargetDefined /\ [][active => active']_vars

\* the return to "none" dispatches the saved temperature, the first preset's
C19_Witness ==
    /\ obs.op = "async_set_preset_mode" /\ obs.arg = PRESET_NONE
    /\ obs.verdict = "sent" /\ active
    /\ target_temp = FirstPresetValue /\ saved_target_temp = FirstPresetValue

\* no command has been dispatched since construction
NeverSent == last_response = "none" /\ inside = <<>>

\* what a step does as long as nothing has been dispatched
NoSendAtStartupStep ==
    /\ (~added /\ added')
       => /\ last_state' = ACState(target_temp', hvac_mode')
          /\ NeverSent'
    /\ (added /\ ACState(target_temp', hvac_mode') # ACState(target_temp, hvac_mode))
       => SetterCalled'
    /\ (added /\ NeverSent /\ last_state = ACState(target_temp, hvac_mode)
              /\ obs'.verdict = "sent")
       => /\ SetterCalled'
          /\ ACState(target_temp', hvac_mode') # ACState(target_temp, hvac_mode)

\* C20: startup dispatches nothing and leaves LastSentState equal to the
\* restored or configured desired state, so that nothing is dispatched before
\* a setter call changes the target temperature or the mode (ticks, and setters
\* that write the values already there, send nothing); and LastSentState is
\* not None whenever the sender compares it.
C20_NoSendAtStartup ==
    /\ []((added => last_state # <<>>) /\ obs.verdict # "error"
          /\ (Evaluated => added))
    /\ [][NoSendAtStartupStep]_vars

\* async_set_temperature writes the target that is there already, and the
\* sender, which has sent nothing yet, finds equal states
C20_Witness ==
    /\ obs.op = "async_set_temperature" /\ obs.verdict = "equal"
    /\ NeverSent /\ last_state = ACState(target_temp, hvac_mode)

====
